---- MODULE Spec2Model ----
(***************************************************************************)
(* ASISTEC backend (src/main.py): the WebSocket relay endpoint, its        *)
(* ConnectionManager registry and the google_search helper.                *)
(*                                                                         *)
(* Every connection handler is one asyncio task; it is suspended only at   *)
(* its awaits (accept, receive_text, the outbound GET, send_text).  One    *)
(* action of the model is the code a task runs from one await to the next. *)
(***************************************************************************)
EXTENDS Integers, Sequences, FiniteSets, TLC

\* ------------------------------------------------------------------ bounds
MaxSessions == 2   \* connection handles (WebSocket objects) that ever exist
MaxEvents == 2     \* receive_text completions (frames and errors), over all sessions
MaxFairSessions == 1   \* connections made in the runs checked for progress
MaxItems == 2      \* results in a well-formed search response
MaxUploads == 2    \* requests made to /api/upload
MaxChunks == 1     \* non-empty chunks read from one uploaded file

Handles == 1..MaxSessions
Uploads == 1..MaxUploads
ClientIds == {"alice", "bob"}
Queries == {"", "clima"}

\* An environment variable is unset (os.getenv gives None) or holds a string.
Unset == <<>>
CredValues == {Unset, <<"">>, <<"k">>}

\* ------------------------------------------------------- JSON and outcomes
JNull == [type |-> "null"]
JString(s) == [type |-> "string", value |-> s]
JArray(elems) == [type |-> "array", elems |-> elems]
JObject(members) == [type |-> "object", members |-> members]

ItemFull == JObject([title |-> JString("T1"), snippet |-> JString("S1"), link |-> JString("L1")])
ItemNoSnippet == JObject([title |-> JString("T2"), link |-> JString("L2")])

BodyNull == JNull
BodyNoItems == JObject([kind |-> JString("customsearch#search")])
BodyEmptyItems == JObject([items |-> JArray(<<>>)])
BodyOne == JObject([items |-> JArray(<<ItemFull>>)])
BodyTwo == JObject([items |-> JArray(<<ItemNoSnippet, ItemFull>>)])
BodyBadElem == JObject([items |-> JArray(<<ItemFull, JString("x")>>)])
BodyItemsString == JObject([items |-> JString("x")])
BodyArray == JArray(<<ItemFull>>)

Bodies == {BodyNull, BodyNoItems, BodyEmptyItems, BodyOne, BodyTwo, BodyBadElem,
           BodyItemsString, BodyArray}

\* What the awaited request can produce: client.get raising, raise_for_status
\* raising, r.json() raising, or a decoded JSON value.
TransportError == [kind |-> "transport", detail |-> "timed out"]
StatusError == [kind |-> "status", detail |-> "Server error '503'"]
DecodeError == [kind |-> "decode", detail |-> "Expecting value"]
Success(body) == [kind |-> "json", data |-> body]

\* Well-formed responses: an object whose "items", when present, is a list of
\* result objects, each with some of the fields title, snippet and link.
ItemOnlyLink == JObject([link |-> JString("L3")])
ResultItems == {ItemFull, ItemNoSnippet, ItemOnlyLink}
ItemLists == UNION {[1..n -> ResultItems] : n \in 0..MaxItems}
ResponseOf(items) == JObject([kind |-> JString("customsearch#search"), items |-> JArray(items)])
WellFormedBodies == {BodyNoItems} \cup {ResponseOf(items) : items \in ItemLists}

SearchOutcomes ==
    {TransportError, StatusError, DecodeError} \cup {Success(b) : b \in Bodies \cup WellFormedBodies}
RelayOutcomes == {TransportError, Success(BodyOne), Success(BodyNull)}

\* ------------------------------------------------------------ google_search
DefaultMaxResults == 3
\* Python truthiness of the values the model uses.
Truthy(cred) == cred # Unset /\ cred[1] # ""

JTruthy(j) ==
    CASE j.type = "null" -> FALSE
      [] j.type = "string" -> j.value # ""
      [] j.type = "array" -> j.elems # <<>>
      [] j.type = "object" -> DOMAIN j.members # {}

\* str() of a JSON scalar inside an f-string.
PyStr(j) == IF j.type = "string" THEN j.value ELSE "None"

\* it.get(key, '')
ItemGet(it, key) == IF key \in DOMAIN it.members THEN PyStr(it.members[key]) ELSE ""

\* Mutant: the results are numbered from 0 (enumerate(items) without the 1).
RenderItem_FromZero(i, it) ==
    ToString(i - 1) \o ". " \o ItemGet(it, "title") \o "\n" \o ItemGet(it, "snippet")
        \o "\n" \o ItemGet(it, "link") \o "\n"

\* f"{i}. {it.get('title', '')}\n{it.get('snippet', '')}\n{it.get('link', '')}\n"
RenderItem(i, it) ==
    ToString(i) \o ". " \o ItemGet(it, "title") \o "\n" \o ItemGet(it, "snippet")
        \o "\n" \o ItemGet(it, "link") \o "\n"

\* "\n".join(out)
RECURSIVE Join(_, _)
Join(out, sep) ==
    IF out = <<>> THEN ""
    ELSE IF Len(out) = 1 THEN out[1]
    ELSE out[1] \o sep \o Join(Tail(out), sep)

Return(s) == [raised |-> FALSE, value |-> s]
Raise(e) == [raised |-> TRUE, value |-> e]

DisabledSentinel == "[Búsqueda deshabilitada: falta GOOGLE_API_KEY o GOOGLE_CSE_ID]"
NoResultsSentinel == "[Sin resultados en Google]"
ErrorSentinel(detail) == "[Error en búsqueda: " \o detail \o "]"

\* Mutant: "or" written for "and" in the credential test.
SearchDisabled_EitherSuffices(key, cse) == ~(Truthy(key) \/ Truthy(cse))

\* if not (GOOGLE_API_KEY and GOOGLE_CSE_ID)
SearchDisabled(key, cse) == ~(Truthy(key) /\ Truthy(cse))

\* lines 64-70: what runs after the try block, on the decoded JSON value.
RenderData(data) ==
    IF data.type # "object" THEN Raise("AttributeError")
    ELSE LET items == IF "items" \in DOMAIN data.members
                      THEN data.members["items"] ELSE JArray(<<>>)
         IN  IF ~JTruthy(items) THEN Return(NoResultsSentinel)
             ELSE IF items.type # "array" THEN Raise("AttributeError")
             ELSE IF \E i \in 1..Len(items.elems) : items.elems[i].type # "object"
                  THEN Raise("AttributeError")
             ELSE Return(Join([i \in 1..Len(items.elems) |-> RenderItem(i, items.elems[i])],
                              "\n"))

\* lines 56-70: google_search from the point where the awaited GET resumes.
SearchResume(outcome) ==
    IF outcome.kind # "json" THEN Return(ErrorSentinel(outcome.detail))
    ELSE RenderData(outcome.data)

\* lines 52-53: the return taken before any request is made.
SearchImmediate == Return(DisabledSentinel)

\* The whole call, given what the outbound request would produce.
google_search(key, cse, query, max_results, outcome) ==
    IF SearchDisabled(key, cse) THEN SearchImmediate ELSE SearchResume(outcome)

\* ------------------------------------------------------- ConnectionManager
\* list.remove: drops the first occurrence only.
RECURSIVE RemoveFirst(_, _)
RemoveFirst(conns, h) ==
    IF conns = <<>> THEN <<>>
    ELSE IF Head(conns) = h THEN Tail(conns)
    ELSE <<Head(conns)>> \o RemoveFirst(Tail(conns), h)

InList(conns, h) == \E i \in 1..Len(conns) : conns[i] = h

\* Mutant: the newest connection is dropped instead of the given one.
disconnect_DropsLast(conns, h) ==
    IF InList(conns, h) THEN SubSeq(conns, 1, Len(conns) - 1) ELSE conns

\* Mutant: the handle is looked up but never removed.
disconnect_Keeps(conns, h) == conns

\* ConnectionManager.disconnect
disconnect(conns, h) == IF InList(conns, h) THEN RemoveFirst(conns, h) ELSE conns

\* memories.setdefault(client_id, [])
setdefault(mem, c) ==
    IF c \in DOMAIN mem THEN mem ELSE [k \in DOMAIN mem \cup {c} |-> IF k = c THEN <<>> ELSE mem[k]]

\* Mutant: the transcript is read but not removed (get for pop).
pop_Keeps(mem, c) == mem

\* memories.pop(client_id, None)
pop(mem, c) == [k \in DOMAIN mem \ {c} |-> mem[k]]

\* line 117 and line 118
UserLine(data) == "Usuario: " \o data
SystemLine(response) == "ASISTEC: " \o response

Header == "Resultados de Google:\n"

\* Mutant: the search result is sent without the header.
BuildResponse_NoHeader(search_result) == search_result

\* line 114
BuildResponse(search_result) == Header \o search_result

\* Mutant: line 118 is missing.
AppendPair_UserOnly(mem, c, data, response) ==
    [mem EXCEPT ![c] = Append(@, UserLine(data))]

\* Mutant: lines 117 and 118 are exchanged.
AppendPair_Swapped(mem, c, data, response) ==
    [mem EXCEPT ![c] = Append(Append(@, SystemLine(response)), UserLine(data))]

\* lines 117-118, with the entry present.
AppendPair(mem, c, data, response) ==
    [mem EXCEPT ![c] = Append(Append(@, UserLine(data)), SystemLine(response))]

\* -------------------------------------------------------------------- state
VARIABLES
    GOOGLE_API_KEY,      \* module globals read from the environment at import
    GOOGLE_CSE_ID,
    active_connections,  \* manager.active_connections: list of handles
    memories,            \* manager.memories: client_id -> list of lines
    pc,                  \* where each handler task is suspended
    client_id,           \* path parameter of each connection made so far
    data,                \* handler local: last text received
    response,            \* handler local: last response built
    closed_by,           \* which branch ended the handler
    fault,               \* the exception caught at line 131, if any
    received,            \* text frames each handler got from receive_text
    recv_errors,         \* non-disconnect errors receive_text raised
    requests,            \* outbound GETs issued for each handler
    sends,               \* send_text calls made with a response
    reports,             \* send_text calls made with an error report
    peer_gone,           \* peers that have closed their end of the connection
    search_args,         \* a direct call of google_search: its arguments and
                         \* what its GET produces; <<>> when there is none
    search_result,       \* what that call returned or raised; <<>> before
    files,               \* UPLOAD_DIR: file name -> chunks written to the file
    uuids,               \* uuid.uuid4() calls made so far
    up_pc,               \* where each upload request is suspended
    up_filename,         \* file.filename of each upload request
    uid_name,            \* upload local: name of the file it writes
    up_status,           \* HTTP status each upload was answered with; 0 before
    up_response          \* JSON body each upload was answered with

vars == <<GOOGLE_API_KEY, GOOGLE_CSE_ID, active_connections, memories, pc, client_id,
          data, response, closed_by, fault, received, recv_errors, requests, sends, reports,
          peer_gone, search_args, search_result,
          files, uuids, up_pc, up_filename, uid_name, up_status, up_response>>

env == <<GOOGLE_API_KEY, GOOGLE_CSE_ID>>
locals == <<data, response>>
counters == <<received, recv_errors, requests, sends, reports>>
relay == <<active_connections, memories, pc, client_id, locals, closed_by, fault, counters>>

\* What no step of a connection handler writes.
search == <<search_args, search_result>>
upload == <<files, uuids, up_pc, up_filename, uid_name, up_status, up_response>>
outside == <<peer_gone, search, upload>>

RECURSIVE SumUpTo(_, _)
SumUpTo(f, n) == IF n = 0 THEN 0 ELSE f[n] + SumUpTo(f, n - 1)
Total(f) == SumUpTo(f, MaxSessions)

InitRelay ==
    /\ GOOGLE_API_KEY \in CredValues
    /\ GOOGLE_CSE_ID \in CredValues
    /\ active_connections = <<>>
    /\ memories = <<>>
    /\ pc = [h \in Handles |-> "connecting"]
    /\ client_id = <<>>
    /\ data = [h \in Handles |-> ""]
    /\ response = [h \in Handles |-> ""]
    /\ closed_by = [h \in Handles |-> "none"]
    /\ fault = [h \in Handles |-> ""]
    /\ received = [h \in Handles |-> 0]
    /\ recv_errors = [h \in Handles |-> 0]
    /\ requests = [h \in Handles |-> 0]
    /\ sends = [h \in Handles |-> 0]
    /\ reports = [h \in Handles |-> 0]
    /\ peer_gone = [h \in Handles |-> FALSE]

\* No request to /api/upload yet; UPLOAD_DIR as line 46 creates it.
NoUploads ==
    /\ files = <<>>
    /\ uuids = 0
    /\ up_pc = [u \in Uploads |-> "idle"]
    /\ up_filename = [u \in Uploads |-> <<>>]
    /\ uid_name = [u \in Uploads |-> <<>>]
    /\ up_status = [u \in Uploads |-> 0]
    /\ up_response = [u \in Uploads |-> <<>>]

Init ==
    /\ InitRelay
    /\ search_args = <<>>
    /\ search_result = <<>>
    /\ NoUploads

\* The handshake was accepted and the handler has not returned.
Open(h) == pc[h] \in {"receive", "get", "send", "report"}

\* Handles are numbered in the order in which their handshakes end.
Arrived(h) == \A k \in Handles : k < h => pc[k] # "connecting"

Bind(f, h, c) == [k \in DOMAIN f \cup {h} |-> IF k = h THEN c ELSE f[k]]

\* ---------------------------------------------------------------- teardown
\* The handler's locals are dead once it returns or starts the next iteration
\* (line 100 and line 114 assign them again before any read).
Forget(f, h) == [f EXCEPT ![h] = ""]

\* Mutant: the disconnect is swallowed like a receive error and the loop
\* goes on to the next receive.
OnDisconnect_Continues(h) ==
    /\ UNCHANGED <<active_connections, memories, pc, closed_by, fault, data, response>>

\* lines 127-130: except WebSocketDisconnect
OnDisconnect(h) ==
    /\ active_connections' = disconnect(active_connections, h)
    /\ memories' = pop(memories, client_id[h])
    /\ pc' = [pc EXCEPT ![h] = "closed"]
    /\ closed_by' = [closed_by EXCEPT ![h] = "disconnect"]
    /\ fault' = fault
    /\ data' = Forget(data, h)
    /\ response' = Forget(response, h)

\* Mutant: the cleanup of lines 134-135 forgets the transcript.
OnException_KeepsTranscript(h, e) ==
    /\ active_connections' = disconnect(active_connections, h)
    /\ memories' = memories
    /\ pc' = [pc EXCEPT ![h] = "closed"]
    /\ closed_by' = [closed_by EXCEPT ![h] = "exception"]
    /\ fault' = [fault EXCEPT ![h] = e]
    /\ data' = Forget(data, h)
    /\ response' = Forget(response, h)

\* lines 131-137: except Exception
OnException(h, e) ==
    /\ active_connections' = disconnect(active_connections, h)
    /\ memories' = pop(memories, client_id[h])
    /\ pc' = [pc EXCEPT ![h] = "closed"]
    /\ closed_by' = [closed_by EXCEPT ![h] = "exception"]
    /\ fault' = [fault EXCEPT ![h] = e]
    /\ data' = Forget(data, h)
    /\ response' = Forget(response, h)

\* lines 122-125: except Exception around the response send, then break
OnSendFailure(h) ==
    /\ active_connections' = disconnect(active_connections, h)
    /\ memories' = memories
    /\ pc' = [pc EXCEPT ![h] = "closed"]
    /\ closed_by' = [closed_by EXCEPT ![h] = "send_failure"]
    /\ fault' = fault
    /\ data' = Forget(data, h)
    /\ response' = Forget(response, h)

\* lines 114-121: build the response, append the pair, start the send.
\* memories[client_id] raises KeyError when the entry is gone.
Process(h, text, result) ==
    IF result.raised
    THEN /\ OnException(h, result.value)
         /\ UNCHANGED sends
    ELSE IF client_id[h] \in DOMAIN memories
    THEN /\ data' = [data EXCEPT ![h] = text]
         /\ response' = [response EXCEPT ![h] = BuildResponse(result.value)]
         /\ memories' = AppendPair(memories, client_id[h], text, BuildResponse(result.value))
         /\ sends' = [sends EXCEPT ![h] = @ + 1]
         /\ pc' = [pc EXCEPT ![h] = "send"]
         /\ UNCHANGED <<active_connections, closed_by, fault>>
    ELSE /\ OnException(h, "KeyError")
         /\ UNCHANGED sends

\* ------------------------------------------------------------------ actions
\* lines 93-96: the handshake succeeds.
Connect(h) ==
    /\ pc[h] = "connecting"
    /\ Arrived(h)
    /\ \E c \in ClientIds :
        /\ client_id' = Bind(client_id, h, c)
        /\ memories' = setdefault(memories, c)
    /\ active_connections' = Append(active_connections, h)
    /\ pc' = [pc EXCEPT ![h] = "receive"]
    /\ UNCHANGED <<env, locals, closed_by, fault, counters>>
    /\ UNCHANGED outside

\* line 79: websocket.accept() raises; connect() and the handler propagate it.
ConnectFails(h) ==
    /\ pc[h] = "connecting"
    /\ Arrived(h)
    /\ pc' = [pc EXCEPT ![h] = "closed"]
    /\ closed_by' = [closed_by EXCEPT ![h] = "handshake"]
    /\ UNCHANGED <<env, active_connections, memories, client_id, locals, fault, counters>>
    /\ UNCHANGED outside

\* lines 100, 108-121: a text frame arrives.
ReceiveText(h) ==
    /\ pc[h] = "receive"
    /\ Total(received) + Total(recv_errors) < MaxEvents
    /\ \E q \in Queries :
        /\ received' = [received EXCEPT ![h] = @ + 1]
        /\ IF SearchDisabled(GOOGLE_API_KEY, GOOGLE_CSE_ID)
           THEN /\ Process(h, q, SearchImmediate)
                /\ UNCHANGED requests
           ELSE /\ data' = [data EXCEPT ![h] = q]
                /\ requests' = [requests EXCEPT ![h] = @ + 1]
                /\ pc' = [pc EXCEPT ![h] = "get"]
                /\ UNCHANGED <<active_connections, memories, response, closed_by, fault,
                               sends>>
    /\ UNCHANGED <<env, client_id, recv_errors, reports>>
    /\ UNCHANGED outside

\* lines 58-70, 114-121: the outbound request completes.
SearchReturns(h) ==
    /\ pc[h] = "get"
    /\ \E outcome \in RelayOutcomes : Process(h, data[h], SearchResume(outcome))
    /\ UNCHANGED <<env, client_id, received, recv_errors, requests, reports>>
    /\ UNCHANGED outside

\* lines 101-102, 127-130: the peer disconnects.
ReceiveDisconnect(h) ==
    /\ pc[h] = "receive"
    /\ OnDisconnect(h)
    /\ UNCHANGED <<env, client_id, counters>>
    /\ UNCHANGED outside

\* Mutant: a receive error is treated as fatal (raise for the report).
ReceiveError_Fatal(h) ==
    /\ pc[h] = "receive"
    /\ Total(received) + Total(recv_errors) < MaxEvents
    /\ recv_errors' = [recv_errors EXCEPT ![h] = @ + 1]
    /\ OnException(h, "RuntimeError")
    /\ UNCHANGED <<env, client_id, received, requests, sends, reports>>
    /\ UNCHANGED outside

\* lines 103-105: receive_text raises something else; the report is sent.
ReceiveError(h) ==
    /\ pc[h] = "receive"
    /\ Total(received) + Total(recv_errors) < MaxEvents
    /\ recv_errors' = [recv_errors EXCEPT ![h] = @ + 1]
    /\ reports' = [reports EXCEPT ![h] = @ + 1]
    /\ pc' = [pc EXCEPT ![h] = "report"]
    /\ UNCHANGED <<env, active_connections, memories, client_id, locals, closed_by, fault,
                   received, requests, sends>>
    /\ UNCHANGED outside

\* lines 105-106: the report is delivered; continue.
ReportSent(h) ==
    /\ pc[h] = "report"
    /\ pc' = [pc EXCEPT ![h] = "receive"]
    /\ UNCHANGED <<env, active_connections, memories, client_id, locals, closed_by, fault,
                   counters>>
    /\ UNCHANGED outside

\* line 105 raises inside the handler of line 103: the outer handlers run,
\* line 127 for a WebSocketDisconnect and line 131 for anything else.
ReportFails(h) ==
    /\ pc[h] = "report"
    /\ \E e \in {"WebSocketDisconnect", "RuntimeError"} :
        IF e = "WebSocketDisconnect" THEN OnDisconnect(h) ELSE OnException(h, e)
    /\ UNCHANGED <<env, client_id, counters>>
    /\ UNCHANGED outside

\* line 121 returns; back to receive.
SendOk(h) ==
    /\ pc[h] = "send"
    /\ pc' = [pc EXCEPT ![h] = "receive"]
    /\ data' = Forget(data, h)
    /\ response' = Forget(response, h)
    /\ UNCHANGED <<env, active_connections, memories, client_id, closed_by, fault, counters>>
    /\ UNCHANGED outside

\* lines 122-125: the response send raises.
SendFails(h) ==
    /\ pc[h] = "send"
    /\ OnSendFailure(h)
    /\ UNCHANGED <<env, client_id, counters>>
    /\ UNCHANGED outside

Next ==
    \E h \in Handles :
        \/ Connect(h)
        \/ ConnectFails(h)
        \/ ReceiveText(h)
        \/ SearchReturns(h)
        \/ ReceiveDisconnect(h)
        \/ ReceiveError(h)
        \/ ReportSent(h)
        \/ ReportFails(h)
        \/ SendOk(h)
        \/ SendFails(h)

Spec == Init /\ [][Next]_vars

\* --------------------------------------------------------- fair scheduling
\* The peer closes its end; the handler learns of it at its next receive.
PeerDisconnects(h) ==
    /\ Open(h)
    /\ ~peer_gone[h]
    /\ peer_gone' = [peer_gone EXCEPT ![h] = TRUE]
    /\ UNCHANGED <<env, relay, search, upload>>

\* The steps of a handler whose await has completed: the event loop resumes
\* the task. receive_text completes by itself only once the peer is gone; the
\* GET ends within its 10 s timeout; send_text returns or raises.
TaskStep(h) ==
    \/ peer_gone[h] /\ ReceiveDisconnect(h)
    \/ SearchReturns(h)
    \/ ReportSent(h)
    \/ ReportFails(h)
    \/ SendOk(h)
    \/ SendFails(h)

FairHandles == 1..MaxFairSessions

\* Progress is checked with the first credential set and the second set or
\* missing, so that both the path with the GET and the path without it run.
InitFair ==
    /\ Init
    /\ GOOGLE_API_KEY = <<"k">>
    /\ GOOGLE_CSE_ID \in {Unset, <<"k">>}

NextFair ==
    \E h \in FairHandles :
        \/ Connect(h)
        \/ ConnectFails(h)
        \/ PeerDisconnects(h)
        \/ ~peer_gone[h] /\ ReceiveText(h)
        \/ ~peer_gone[h] /\ ReceiveError(h)
        \/ peer_gone[h] /\ ReceiveDisconnect(h)
        \/ SearchReturns(h)
        \/ ReportSent(h)
        \/ ReportFails(h)
        \/ SendOk(h)
        \/ SendFails(h)

SpecFair == InitFair /\ [][NextFair]_vars /\ \A h \in FairHandles : WF_vars(TaskStep(h))

\* ------------------------------------------------- google_search on its own
SearchArgs == [query : Queries, max_results : 1..DefaultMaxResults, outcome : SearchOutcomes]

InitSearch ==
    /\ InitRelay
    /\ search_args \in {<<a>> : a \in SearchArgs}
    /\ search_result = <<>>
    /\ NoUploads

\* lines 51-70: one call, from its first line to its return or raise.
CallSearch ==
    /\ search_args # <<>>
    /\ search_result = <<>>
    /\ search_result' = <<google_search(GOOGLE_API_KEY, GOOGLE_CSE_ID, search_args[1].query,
                                        search_args[1].max_results, search_args[1].outcome)>>
    /\ UNCHANGED <<env, relay, peer_gone, search_args, upload>>

NextSearch == CallSearch

SpecSearch == InitSearch /\ [][NextSearch]_vars

\* ------------------------------------------------------------ upload_file
\* File names and extensions are sequences of characters.
ALLOWED_EXT ==
    { <<".", "t", "x", "t">>, <<".", "p", "d", "f">>, <<".", "d", "o", "c", "x">>,
      <<".", "c", "s", "v">>, <<".", "x", "l", "s", "x">>, <<".", "j", "s", "o", "n">>,
      <<".", "p", "n", "g">>, <<".", "j", "p", "g">>, <<".", "j", "p", "e", "g">>,
      <<".", "w", "e", "b", "p">> }

FileNames ==
    { <<"r", ".", "c", "s", "v">>,                 \* r.csv
      <<"R", ".", "C", "S", "V">>,                 \* R.CSV
      <<"m", ".", "E", "x", "e">>,                 \* m.Exe
      <<"n", "o", "t", "e", "s">>,                 \* notes
      <<".", "t", "x", "t">>,                      \* .txt
      <<"d", ".", "t", "x", "t", "/", "e">> }      \* d.txt/e

LastIndex(s, c) ==
    LET at == {i \in 1..Len(s) : s[i] = c}
    IN  IF at = {} THEN 0 ELSE CHOOSE i \in at : \A j \in at : j <= i

\* Path(p).name: the last component of the path.
PathName(p) == SubSeq(p, LastIndex(p, "/") + 1, Len(p))

\* Path(p).suffix: from the last dot of the name, unless the name starts or
\* ends with that dot.
suffix(p) ==
    LET name == PathName(p)
        i == LastIndex(name, ".")
    IN  IF 1 < i /\ i < Len(name) THEN SubSeq(name, i, Len(name)) ELSE <<>>

UpperToLower ==
    ("A" :> "a") @@ ("B" :> "b") @@ ("C" :> "c") @@ ("D" :> "d") @@ ("E" :> "e") @@
    ("F" :> "f") @@ ("G" :> "g") @@ ("H" :> "h") @@ ("I" :> "i") @@ ("J" :> "j") @@
    ("K" :> "k") @@ ("L" :> "l") @@ ("M" :> "m") @@ ("N" :> "n") @@ ("O" :> "o") @@
    ("P" :> "p") @@ ("Q" :> "q") @@ ("R" :> "r") @@ ("S" :> "s") @@ ("T" :> "t") @@
    ("U" :> "u") @@ ("V" :> "v") @@ ("W" :> "w") @@ ("X" :> "x") @@ ("Y" :> "y") @@
    ("Z" :> "z")

\* str.lower()
lower(s) == [i \in 1..Len(s) |-> IF s[i] \in DOMAIN UpperToLower THEN UpperToLower[s[i]] ELSE s[i]]

\* Mutant: every call gives the same token.
hex_Same(n) == "uuid"

\* uuid.uuid4().hex: the n-th call gives a token no earlier call gave.
hex(n) == "uuid" \o ToString(n)

\* aiofiles.open(path, "wb"): the file exists and is empty afterwards.
Create(dir, name) == (name :> 0) @@ dir

\* app.mount("/uploads", StaticFiles(directory=UPLOAD_DIR)): GET /uploads/name
Retrievable(name) == name \in DOMAIN files

HTTPException(status_code, detail) == [status |-> status_code, body |-> [detail |-> detail]]

Answer(u, reply) ==
    /\ up_pc' = [up_pc EXCEPT ![u] = "done"]
    /\ up_status' = [up_status EXCEPT ![u] = reply.status]
    /\ up_response' = [up_response EXCEPT ![u] = reply.body]

\* Mutant: the rejected upload leaves an empty file behind.
Reject_AfterCreate(u, ext) ==
    /\ Answer(u, HTTPException(400, "File type not allowed"))
    /\ files' = Create(files, <<hex(uuids + 1)>> \o ext)
    /\ UNCHANGED <<uuids, uid_name>>

\* lines 143-144
Reject(u, ext) ==
    /\ Answer(u, HTTPException(400, "File type not allowed"))
    /\ UNCHANGED <<files, uuids, uid_name>>

\* lines 154-156
StorageError(u) ==
    /\ Answer(u, HTTPException(500, "Error saving file"))
    /\ UNCHANGED <<files, uuids, up_filename, uid_name>>

\* lines 141-148, up to the await of aiofiles.open. Requests are numbered in
\* the order they arrive.
UploadRequest(u) ==
    /\ up_pc[u] = "idle"
    /\ \A v \in 1..(u - 1) : up_pc[v] # "idle"
    /\ \E filename \in FileNames :
          LET ext == lower(suffix(filename))
          IN  /\ up_filename' = [up_filename EXCEPT ![u] = filename]
              /\ IF ext \notin ALLOWED_EXT
                 THEN Reject(u, ext)
                 ELSE /\ uuids' = uuids + 1
                      /\ uid_name' = [uid_name EXCEPT ![u] = <<hex(uuids + 1)>> \o ext]
                      /\ up_pc' = [up_pc EXCEPT ![u] = "open"]
                      /\ UNCHANGED <<files, up_status, up_response>>
    /\ UNCHANGED <<env, relay, peer_gone, search>>

\* line 148: the file is created, or truncated when it exists.
UploadOpen(u) ==
    /\ up_pc[u] = "open"
    /\ files' = Create(files, uid_name[u])
    /\ up_pc' = [up_pc EXCEPT ![u] = "read"]
    /\ UNCHANGED <<uuids, up_filename, uid_name, up_status, up_response>>
    /\ UNCHANGED <<env, relay, peer_gone, search>>

\* line 148 raises (no space, no permission): no file is created.
UploadOpenFails(u) ==
    /\ up_pc[u] = "open"
    /\ StorageError(u)
    /\ UNCHANGED <<env, relay, peer_gone, search>>

\* lines 150-153, up to the await of f.write: a non-empty chunk was read.
UploadRead(u) ==
    /\ up_pc[u] = "read"
    /\ files[uid_name[u]] < MaxChunks
    /\ up_pc' = [up_pc EXCEPT ![u] = "write"]
    /\ UNCHANGED <<files, uuids, up_filename, uid_name, up_status, up_response>>
    /\ UNCHANGED <<env, relay, peer_gone, search>>

\* line 153 returns: the chunk is in the file.
UploadWrite(u) ==
    /\ up_pc[u] = "write"
    /\ files' = [files EXCEPT ![uid_name[u]] = @ + 1]
    /\ up_pc' = [up_pc EXCEPT ![u] = "read"]
    /\ UNCHANGED <<uuids, up_filename, uid_name, up_status, up_response>>
    /\ UNCHANGED <<env, relay, peer_gone, search>>

\* line 153 raises: lines 154-156 answer 500; nothing removes the file.
UploadWriteFails(u) ==
    /\ up_pc[u] = "write"
    /\ StorageError(u)
    /\ UNCHANGED <<env, relay, peer_gone, search>>

\* lines 150-152 and 157: the read returns no chunk, the file is closed.
UploadDone(u) ==
    /\ up_pc[u] = "read"
    /\ Answer(u, [status |-> 200,
                  body |-> [file_url |-> <<"/uploads/">> \o uid_name[u],
                            filename |-> up_filename[u]]])
    /\ UNCHANGED <<files, uuids, up_filename, uid_name>>
    /\ UNCHANGED <<env, relay, peer_gone, search>>

InitUpload ==
    /\ Init
    /\ GOOGLE_API_KEY = Unset
    /\ GOOGLE_CSE_ID = Unset

NextUpload ==
    \E u \in Uploads :
        \/ UploadRequest(u)
        \/ UploadOpen(u)
        \/ UploadOpenFails(u)
        \/ UploadRead(u)
        \/ UploadWrite(u)
        \/ UploadWriteFails(u)
        \/ UploadDone(u)

SpecUpload == InitUpload /\ [][NextUpload]_vars

\* ------------------------------------------------------------------- claims
Closes(h) == pc[h] # "closed" /\ pc'[h] = "closed"
Transcripts == DOMAIN memories
SearchEnabled == Truthy(GOOGLE_API_KEY) /\ Truthy(GOOGLE_CSE_ID)

\* C1 (as stated): a session that closes on a peer disconnect or on a failed
\* delivery of its response leaves the active set and leaves no transcript for
\* its client identifier, and a closed session takes no further step.
C1_ClosedSessionIsCleared ==
    [][\A h \in Handles :
        /\ (Closes(h) /\ closed_by'[h] \in {"disconnect", "send_failure"}) =>
              /\ ~InList(active_connections', h)
              /\ client_id[h] \notin DOMAIN memories'
        /\ pc[h] = "closed" => (pc'[h] = "closed" /\ received'[h] = received[h])]_vars

\* C2: the step in which an open session sees its peer disconnect removes the
\* handle from the active set and the transcript of its client identifier from
\* the transcript map.
C2_DisconnectDiscardsTranscript ==
    [][\A h \in Handles :
        (pc[h] = "receive" /\ Closes(h) /\ closed_by'[h] = "disconnect") =>
            /\ ~InList(active_connections', h)
            /\ client_id[h] \notin DOMAIN memories']_vars

C2_Witness ==
    \E h \in Handles :
        /\ closed_by[h] = "disconnect"
        /\ received[h] >= 1
        /\ recv_errors[h] = 0
        /\ client_id[h] \notin Transcripts
        /\ ~InList(active_connections, h)

\* C3: the step that finishes processing a received frame (the handler goes on
\* to send) appends to the handler's transcript exactly the user line of the
\* received text and then the system line of the response it is about to send;
\* every other step leaves each transcript as it was, removes it, or creates
\* it empty.
C3_TwoLinesPerProcessedFrame ==
    [][\A h \in Handles :
        /\ (pc[h] \in {"receive", "get"} /\ pc'[h] = "send") =>
              /\ client_id[h] \in Transcripts
              /\ pc[h] = "get" => data'[h] = data[h]
              /\ memories' = [memories EXCEPT ![client_id[h]] =
                                 @ \o <<"Usuario: " \o data'[h], "ASISTEC: " \o response'[h]>>]
        /\ \A c \in DOMAIN memories' :
              \/ c \notin Transcripts /\ memories'[c] = <<>>
              \/ c \in Transcripts /\ memories'[c] = memories[c]
              \/ \E k \in Handles :
                    /\ pc[k] \in {"receive", "get"}
                    /\ pc'[k] = "send"
                    /\ c = client_id[k]]_vars

C3_Witness ==
    \E h \in Handles :
        /\ pc[h] = "send"
        /\ received[h] = 2
        /\ client_id[h] \in Transcripts
        /\ Len(memories[client_id[h]]) = 4

\* C4: every transcript has even length and alternates user line, system
\* line; the lines of two connections that share an identifier interleave
\* pair by pair.
\* The user lines of the texts a peer can send, and the system lines of the
\* responses the relay can build from the request outcomes it can meet.
ExpectedUserLines == {"Usuario: ", "Usuario: clima"}
ExpectedSystemLines ==
    {"ASISTEC: Resultados de Google:\n[Búsqueda deshabilitada: falta GOOGLE_API_KEY o GOOGLE_CSE_ID]",
     "ASISTEC: Resultados de Google:\n[Error en búsqueda: timed out]",
     "ASISTEC: Resultados de Google:\n1. T1\nS1\nL1\n"}

C4_TranscriptIsPairs ==
    \A c \in Transcripts :
        /\ Len(memories[c]) % 2 = 0
        /\ \A i \in 1..Len(memories[c]) :
              IF i % 2 = 1 THEN memories[c][i] \in ExpectedUserLines
              ELSE memories[c][i] \in ExpectedSystemLines

C4_Witness ==
    \E h, k \in Handles :
        /\ h # k
        /\ Open(h) /\ Open(k)
        /\ client_id[h] = client_id[k]
        /\ received[h] = 1 /\ received[k] = 1
        /\ client_id[h] \in Transcripts
        /\ Len(memories[client_id[h]]) = 4

\* C5 (as stated): after receive_text raised a non-disconnect error the session
\* is never ended by it: from the suspended error report the handler only goes
\* back to receive.
C5_ReceiveErrorNeverEndsSession ==
    [][\A h \in Handles : pc[h] = "report" => pc'[h] \in {"report", "receive"}]_vars

\* C5 (amended): a receive error starts one error report on the same
\* connection and leaves the session open, the registry and the transcripts
\* untouched and no request issued; when the report is delivered the session
\* is open again at receive with nothing else changed; when delivering the
\* report fails the session closes through the handler's cleanup.
C5_ReceiveErrorReportedSessionOpen ==
    [][\A h \in Handles :
        /\ recv_errors'[h] # recv_errors[h] =>
              /\ pc[h] = "receive" /\ pc'[h] = "report"
              /\ reports'[h] = reports[h] + 1
              /\ InList(active_connections', h)
              /\ <<active_connections, memories, requests, sends>>' =
                     <<active_connections, memories, requests, sends>>
        /\ (pc[h] = "report" /\ pc'[h] # "report") =>
              \/ /\ pc'[h] = "receive"
                 /\ InList(active_connections', h)
                 /\ <<active_connections, memories, counters>>' =
                        <<active_connections, memories, counters>>
              \/ /\ pc'[h] = "closed"
                 /\ closed_by'[h] \in {"disconnect", "exception"}
                 /\ ~InList(active_connections', h)]_vars

C5_Witness ==
    \E h \in Handles :
        /\ pc[h] = "receive"
        /\ recv_errors[h] = 1
        /\ reports[h] = 1
        /\ InList(active_connections, h)
        /\ client_id[h] \in Transcripts

\* C6 (as stated): a step of one session neither removes the transcript of
\* another open session nor changes the lines it holds, and no session is
\* brought down by finding its transcript gone.
C6_SessionsDoNotInterfere ==
    [][\A h, k \in Handles :
        (h # k /\ pc'[h] # pc[h] /\ Open(k) /\ client_id[k] \in Transcripts) =>
            /\ client_id[k] \in DOMAIN memories'
            /\ Len(memories'[client_id[k]]) >= Len(memories[client_id[k]])
            /\ SubSeq(memories'[client_id[k]], 1, Len(memories[client_id[k]])) =
                   memories[client_id[k]]
            /\ fault'[k] # "KeyError"]_vars

\* C7 (as stated): every text frame a session has received has had exactly
\* one response send attempt by the time the handler receives again or ends;
\* while the search for a frame is pending its send is the one still due.
C7_OneSendPerReceivedFrame ==
    \A h \in Handles :
        sends[h] = IF pc[h] = "get" THEN received[h] - 1 ELSE received[h]

\* C8 (as stated): whatever the outbound request produces, google_search hands
\* a string back to the relay: no session is ended by an exception that
\* escaped google_search.
C8_SearchNeverRaises ==
    \A h \in Handles : pc[h] = "closed" => fault[h] # "AttributeError"

\* C9: with both credentials present every received text frame has caused
\* exactly one outbound request, whatever the earlier requests produced and
\* whether or not the text was seen before; with a credential absent no
\* request is ever made.
C9_OneRequestPerFrame ==
    \A h \in Handles :
        requests[h] = IF SearchEnabled THEN received[h] ELSE 0

C9_Witness ==
    \E h \in Handles :
        /\ SearchEnabled
        /\ pc[h] = "get"
        /\ requests[h] = 2
        /\ client_id[h] \in Transcripts
        /\ memories[client_id[h]] =
               <<UserLine(data[h]), SystemLine(BuildResponse(ErrorSentinel("timed out")))>>

\* C10: with a credential absent, google_search returns the disabled-search
\* sentinel as an ordinary value for every query, result count and request
\* outcome, and every response waiting to be sent is the header followed by
\* that sentinel.
C10_DisabledSearchResponse ==
    ~SearchEnabled =>
        /\ \A q \in Queries, n \in {1, DefaultMaxResults}, o \in RelayOutcomes :
              google_search(GOOGLE_API_KEY, GOOGLE_CSE_ID, q, n, o) =
                  [raised |-> FALSE,
                   value |-> "[Búsqueda deshabilitada: falta GOOGLE_API_KEY o GOOGLE_CSE_ID]"]
        /\ \A h \in Handles :
              pc[h] = "send" =>
                  response[h] = "Resultados de Google:\n[Búsqueda deshabilitada: falta GOOGLE_API_KEY o GOOGLE_CSE_ID]"

C10_Witness ==
    \E h \in Handles :
        /\ GOOGLE_API_KEY # Unset
        /\ Truthy(GOOGLE_API_KEY)
        /\ ~Truthy(GOOGLE_CSE_ID)
        /\ pc[h] = "send"
        /\ data[h] = "clima"
        /\ received[h] = 2

\* C14 (as stated): the step that takes a session from Connecting to Open
\* leaves its handle in the active set and the transcript of its client
\* identifier present and empty, whatever happened on that identifier before.
C14_OpenStartsWithEmptyTranscript ==
    [][\A h \in Handles :
        (pc[h] = "connecting" /\ pc'[h] = "receive") =>
            /\ InList(active_connections', h)
            /\ client_id'[h] \in DOMAIN memories'
            /\ memories'[client_id'[h]] = <<>>]_vars

\* C15: a session ended by a fault of the loop body (the search raising, the
\* transcript entry missing at the append, the error report failing) is
\* closed by the handler itself: its handle is out of the active set, the
\* transcript of its identifier is gone, and it takes no further step.
LoopFaults == {"AttributeError", "KeyError", "RuntimeError"}

C15_LoopFaultClosesWithCleanup ==
    [][\A h \in Handles :
        /\ (Closes(h) /\ (closed_by'[h] = "exception" \/ pc[h] = "report")) =>
              /\ ~InList(active_connections', h)
              /\ client_id[h] \notin DOMAIN memories'
              /\ closed_by'[h] = "exception" => fault'[h] \in LoopFaults
        /\ (pc[h] = "get" /\ pc'[h] # "get") =>
              \/ pc'[h] = "send" /\ client_id[h] \in Transcripts
              \/ pc'[h] = "closed" /\ closed_by'[h] = "exception"
        /\ (pc[h] = "closed" /\ closed_by[h] = "exception") =>
              (pc'[h] = "closed" /\ closed_by'[h] = "exception")]_vars

C15_Witness ==
    \E h, k \in Handles :
        /\ h # k
        /\ fault[h] = "KeyError"
        /\ fault[k] = "RuntimeError"
        /\ pc[h] = "closed" /\ pc[k] = "closed"
        /\ active_connections = <<>>
        /\ Transcripts = {}

\* C17: the active set holds a handle exactly while its session is open, holds
\* no handle twice, and never holds a handle whose handshake failed.
C17_ActiveSetIsOpenSessions ==
    /\ \A h \in Handles : InList(active_connections, h) <=> Open(h)
    /\ \A i, j \in 1..Len(active_connections) :
          active_connections[i] = active_connections[j] => i = j
    /\ \A h \in Handles : closed_by[h] = "handshake" => ~InList(active_connections, h)

C17_Witness ==
    \E h, k \in Handles :
        /\ closed_by[h] = "handshake"
        /\ pc[k] = "send"
        /\ active_connections = <<k>>

\* C18: unregistering a handle takes it out of the active set and keeps every
\* other handle in place and in order; unregistering a handle that is absent,
\* or unregistering a second time, changes nothing.
C18_UnregisterIdempotent ==
    \A h \in Handles :
        LET once == disconnect(active_connections, h)
        IN  /\ ~InList(once, h)
            /\ once = SelectSeq(active_connections, LAMBDA x : x # h)
            /\ disconnect(once, h) = once
            /\ ~InList(active_connections, h) => once = active_connections

C18_Witness ==
    /\ Len(active_connections) = 2
    /\ disconnect(active_connections, active_connections[2]) = <<active_connections[1]>>
    /\ disconnect(active_connections, active_connections[1]) = <<active_connections[2]>>
    /\ \E h \in Handles : pc[h] = "send"

\* C16: under weak fairness of the handler tasks, a session whose peer has
\* closed the connection is eventually Closed; a session only moves forward
\* through Connecting, Open, Closed, and a closed session receives, appends
\* and sends nothing any more.
Rank(state) == IF state = "connecting" THEN 0 ELSE IF state = "closed" THEN 2 ELSE 1

C16_DisconnectLeadsToClosed ==
    /\ \A h \in FairHandles : (Open(h) /\ peer_gone[h]) ~> (pc[h] = "closed")
    /\ [][\A h \in Handles :
            /\ Rank(pc'[h]) >= Rank(pc[h])
            /\ pc[h] = "closed" =>
                  /\ <<received[h], recv_errors[h], requests[h], sends[h], reports[h]>>' =
                         <<received[h], recv_errors[h], requests[h], sends[h], reports[h]>>
                  /\ \A c \in Transcripts \cap DOMAIN memories' :
                        Len(memories'[c]) > Len(memories[c]) =>
                            \E k \in Handles : k # h /\ pc[k] # pc'[k]]_vars

C16_Witness ==
    \E h \in Handles :
        /\ peer_gone[h]
        /\ closed_by[h] = "disconnect"
        /\ received[h] = 2
        /\ requests[h] = 2

\* C19: a call whose request succeeds with a well-formed response returns the
\* no-results sentinel when the response holds no result, and otherwise the
\* entries "i. title\nsnippet\nlink\n" of the results in response order,
\* numbered from 1 without gaps, an absent field left empty, separated by one
\* newline; the string depends on the response alone.
FieldText(it, key) == IF key \in DOMAIN it.members THEN it.members[key].value ELSE ""

RECURSIVE ExpectedEntries(_, _)
ExpectedEntries(items, i) ==
    IF i > Len(items) THEN ""
    ELSE ToString(i) \o ". " \o FieldText(items[i], "title") \o "\n"
             \o FieldText(items[i], "snippet") \o "\n"
             \o FieldText(items[i], "link") \o "\n"
             \o (IF i < Len(items) THEN "\n" ELSE "")
             \o ExpectedEntries(items, i + 1)

ResultsOf(body) ==
    IF "items" \in DOMAIN body.members THEN body.members["items"].elems ELSE <<>>

C19_RenderingOfResults ==
    (/\ search_result # <<>>
     /\ SearchEnabled
     /\ search_args[1].outcome.kind = "json"
     /\ search_args[1].outcome.data \in WellFormedBodies) =>
        LET results == ResultsOf(search_args[1].outcome.data)
        IN  /\ ~search_result[1].raised
            /\ results = <<>> => search_result[1].value = "[Sin resultados en Google]"
            /\ results # <<>> => search_result[1].value = ExpectedEntries(results, 1)
            /\ results = <<ItemNoSnippet, ItemFull>> =>
                  search_result[1].value = "1. T2\n\nL2\n\n2. T1\nS1\nL1\n"
            /\ \A q \in Queries, n \in 1..DefaultMaxResults :
                  google_search(GOOGLE_API_KEY, GOOGLE_CSE_ID, q, n, search_args[1].outcome) =
                      search_result[1]

C19_Witness ==
    /\ search_result # <<>>
    /\ SearchEnabled
    /\ search_args[1].query = ""
    /\ search_args[1].outcome = Success(ResponseOf(<<ItemOnlyLink, ItemFull>>))
    /\ search_result[1] = [raised |-> FALSE, value |-> "1. \n\nL3\n\n2. T1\nS1\nL1\n"]

\* C11: an upload answered with a server error reported no success and left
\* no file of its own retrievable under /uploads.
C11_FailedUploadLeavesNoFile ==
    \A u \in Uploads :
        up_status[u] = 500 =>
            /\ up_pc[u] = "done"
            /\ up_response[u] = [detail |-> "Error saving file"]
            /\ ~Retrievable(uid_name[u])

\* C12: a request whose file name has an extension that, in lower case, is not
\* in the allow-list is answered 400 in the step that takes it, and that step
\* leaves the storage directory and the token generator unchanged; the
\* request takes no later step.
Disallowed(filename) == lower(suffix(filename)) \notin ALLOWED_EXT

C12_DisallowedIsRejectedBeforeCreate ==
    [][\A u \in Uploads :
          /\ (up_pc[u] = "idle" /\ up_pc'[u] # "idle" /\ Disallowed(up_filename'[u])) =>
                /\ up_pc'[u] = "done"
                /\ up_status'[u] = 400
                /\ files' = files
                /\ uuids' = uuids
          /\ (up_pc'[u] # "idle" /\ up_filename'[u] = <<"m", ".", "E", "x", "e">>) =>
                up_status'[u] = 400
          /\ up_status[u] = 400 =>
                /\ up_status'[u] = 400
                /\ up_pc'[u] = "done"
                /\ uid_name'[u] = <<>>]_vars

C12_Witness ==
    /\ up_status[1] = 200
    /\ DOMAIN files # {}
    /\ up_filename[2] = <<"m", ".", "E", "x", "e">>
    /\ up_status[2] = 400
    /\ up_response[2] = [detail |-> "File type not allowed"]

\* C13 as stated: a successful upload is stored under a token followed by the
\* extension as received, and its file_url ends in that extension.
EndsWith(s, tail) ==
    /\ Len(tail) <= Len(s)
    /\ SubSeq(s, Len(s) - Len(tail) + 1, Len(s)) = tail

C13_StoredUnderOriginalExtension ==
    \A u \in Uploads :
        up_status[u] = 200 =>
            /\ Tail(uid_name[u]) = suffix(up_filename[u])
            /\ EndsWith(up_response[u].file_url, suffix(up_filename[u]))

\* C13: a successful upload has stored one file named by a token no other
\* upload got, followed by the extension of the file name in lower case; its
\* file_url is "/uploads/" and that name, so it ends in the lower-case
\* extension and is not the original name; filename is the name as received.
\* The step that opens the file is the only one that adds a file, it adds
\* exactly that one, and no step changes or removes a file of another upload.
ExpectedExt(filename) ==
    IF filename \in {<<"r", ".", "c", "s", "v">>, <<"R", ".", "C", "S", "V">>}
    THEN <<".", "c", "s", "v">>
    ELSE <<>>

Opens(u) == up_pc[u] = "open" /\ up_pc'[u] = "read"

SuccessfulUpload(u) ==
    up_status[u] = 200 =>
        /\ up_pc[u] = "done"
        /\ ExpectedExt(up_filename[u]) \in ALLOWED_EXT
        /\ Len(uid_name[u]) = 1 + Len(ExpectedExt(up_filename[u]))
        /\ Tail(uid_name[u]) = ExpectedExt(up_filename[u])
        /\ Retrievable(uid_name[u])
        /\ up_response[u].file_url = <<"/uploads/">> \o uid_name[u]
        /\ EndsWith(up_response[u].file_url, ExpectedExt(up_filename[u]))
        /\ up_response[u].file_url # up_filename[u]
        /\ uid_name[u] # up_filename[u]
        /\ up_response[u].filename = up_filename[u]
        /\ \A v \in Uploads \ {u} : uid_name[v] # uid_name[u]

C13_StoredUnderFreshTokenAndLowerExtension ==
    [][/\ \A u \in Uploads : SuccessfulUpload(u)'
       /\ \A u \in Uploads :
             Opens(u) =>
                /\ uid_name[u] \notin DOMAIN files
                /\ DOMAIN files' = DOMAIN files \cup {uid_name[u]}
       /\ \A n \in DOMAIN files' \ DOMAIN files : \E u \in Uploads : Opens(u) /\ n = uid_name[u]
       /\ \A n \in DOMAIN files :
             /\ n \in DOMAIN files'
             /\ files'[n] # files[n] =>
                   \E u \in Uploads :
                       /\ uid_name[u] = n
                       /\ up_pc[u] = "write"
                       /\ files'[n] = files[n] + 1]_vars

C13_Witness ==
    /\ up_status[1] = 200
    /\ up_status[2] = 200
    /\ up_filename[1] = <<"R", ".", "C", "S", "V">>
    /\ up_filename[2] = <<"r", ".", "c", "s", "v">>
    /\ uid_name[1] = <<"uuid1", ".", "c", "s", "v">>
    /\ uid_name[2] = <<"uuid2", ".", "c", "s", "v">>
    /\ DOMAIN files = {uid_name[1], uid_name[2]}
    /\ files[uid_name[1]] = MaxChunks

====
